---------------------------- MODULE Spec2Model ----------------------------
(***************************************************************************)
(* Backtesting core of the stock-analysis repository:                      *)
(*   BacktestEngine._simulate_trades          (analyzers/backtester.py)    *)
(*   PerformanceAnalyzer.calculate_comprehensive_metrics                   *)
(*                                            (analyzers/performance.py)   *)
(*                                                                         *)
(* Amounts (capital, closes, cash, profit_loss) are whole currency units   *)
(* (yen); on such values the float arithmetic of the code is exact, so the *)
(* integer arithmetic below computes what the code computes.  Ratios the   *)
(* code reports as floats are kept as exact fractions [num, den].          *)
(* position_size is carried in percent (0.95 is 95).  Dates are the        *)
(* positions of the rows in the price series, 1 .. Len(df): the index of   *)
(* the frame is ordered, unique and ascending, one row per day.            *)
(***************************************************************************)
EXTENDS Integers, Sequences, FiniteSets, TLC

VARIABLES
    initial_capital,  \* BacktestEngine.initial_capital
    strategy_params,  \* dict handed to _simulate_trades
    df,               \* the Close column of the price frame
    signals,          \* the signals frame, one row per row of df
    pc,               \* "loop" | "returned" | "evaluated"
    i,                \* rows of signals consumed by the for loop
    cash,             \* local of _simulate_trades
    position,         \* local of _simulate_trades: {} is None, {p} a dict
    trades,           \* local of _simulate_trades, then its return value
    report,           \* result of calculate_comprehensive_metrics
    strategy_id,      \* data.get('strategy', 'combo') of the request
    outcome,          \* 'success' of the JSON response: "none" until sent
    ind_prev,         \* df.iloc[i-1] of the indicator frame, as a policy reads it
    ind_cur,          \* df.iloc[i] of the indicator frame
    runB,             \* a second, concurrent request: its own objects
    manager,          \* StrategyManager.strategies of one manager: id -> params
    call,             \* the last call made on that manager, with its result
    performance       \* 'performance' of run_backtest: its max_drawdown

vars == <<initial_capital, strategy_params, df, signals, pc, i, cash,
          position, trades, report, strategy_id, outcome, ind_prev, ind_cur,
          runB, manager, call, performance>>

\* what the simulator and the analyzer never touch
aux == <<strategy_id, outcome, ind_prev, ind_cur, runB, manager, call>>

\* the manager whose calls are followed one by one
registry == <<manager, call>>

---------------------------------------------------------------------------
(* Bounds and input sets *)

MaxLen == 3

SmallCloses == {90, 110}

ScenarioCloses == <<100, 90, 80, 95, 110>>

Capitals == {-10000, 0, 100, 10000}

PositionSizes == {0, 100, 150}

EmptyParams == [k \in {} |-> 0]

ParamSets == {EmptyParams} \cup {[position_size |-> p] : p \in PositionSizes}

Row(b, s) ==
    [buy_signal |-> b, sell_signal |-> s,
     signal_reason |-> IF b \/ s THEN "signal" ELSE ""]

Rows == {Row(b, s) : b \in BOOLEAN, s \in BOOLEAN}

PriceSeries ==
    {ScenarioCloses} \cup UNION {[1..n -> SmallCloses] : n \in 1..MaxLen}

---------------------------------------------------------------------------
(* Helpers *)

\* exit_reason of the forced closure, the literal '期間終了'
PeriodEnd == "period_end"

DefaultPositionSize == 95

\* dict.get(key, default)
Get(params, key, default) ==
    IF key \in DOMAIN params THEN params[key] ELSE default

PositionSize == Get(strategy_params, "position_size", DefaultPositionSize)

\* int(a / b) for b > 0: truncation toward zero
TruncDiv(a, b) == IF a >= 0 THEN a \div b ELSE -((-a) \div b)

CeilDiv(a, b) == IF a >= 0 THEN (a + b - 1) \div b ELSE -((-a) \div b)

SharesCeil(c, pct, price) == CeilDiv(c * pct, 100 * price)

SharesFromInitial(c, pct, price) == TruncDiv(initial_capital * pct, 100 * price)

\* shares = int(cash * position_size / current_price)
Shares(c, pct, price) == TruncDiv(c * pct, 100 * price)

Rat(n, d) == [num |-> n, den |-> d]

Last(s) == s[Len(s)]

Pos == CHOOSE p \in position : TRUE

BuyGuardNoPositionCheck(buy, pos) == buy

\* if row['buy_signal'] and position is None
BuyGuard(buy, pos) == buy /\ pos = {}

\* a position of no share is opened too
HasSharesOrNone(shares) == shares >= 0

\* if shares > 0
HasShares(shares) == shares > 0

\* the row that opens a position closes it as well
SellGuardSameRow(buyTaken, sell, pos) == (buyTaken \/ sell) /\ pos # {}

SellGuardIf(buyTaken, sell, pos) == sell /\ pos # {}

\* elif row['sell_signal'] and position is not None
SellGuard(buyTaken, sell, pos) == ~buyTaken /\ sell /\ pos # {}

NewPosition(date, price, shares, reason) ==
    [type |-> "long", entry_date |-> date, entry_price |-> price,
     shares |-> shares, entry_reason |-> reason]

ProfitLossPerShareOnly(p, price) == price - p.entry_price

\* exit_value - (position['shares'] * position['entry_price'])
ProfitLoss(p, price) == p.shares * price - p.shares * p.entry_price

\* the difference is taken from the exit back to the entry
DaysBetweenReversed(entry_date, date) == entry_date - date

\* (date - position['entry_date']).days
DaysBetween(entry_date, date) == date - entry_date

MakeTrade(p, date, price, reason) ==
    [entry_date |-> p.entry_date,
     exit_date |-> date,
     entry_price |-> p.entry_price,
     exit_price |-> price,
     shares |-> p.shares,
     profit_loss |-> ProfitLoss(p, price),
     profit_loss_pct |-> Rat((price - p.entry_price) * 100, p.entry_price),
     entry_reason |-> p.entry_reason,
     exit_reason |-> reason,
     holding_days |-> DaysBetween(p.entry_date, date)]

PrependTrade(log, t) == <<t>> \o log

\* trades.append(trade)
AppendTrade(log, t) == Append(log, t)

KeepPosition(pos) == pos

\* position = None after a sell
ClearPosition(pos) == {}

FinalPriceIsEntry(closes, p) == p.entry_price

\* final_price = df.loc[df.index[-1], 'Close']
FinalPrice(closes, p) == closes[Len(closes)]

---------------------------------------------------------------------------
(* PerformanceAnalyzer *)

RECURSIVE SumProfitLoss(_)
SumProfitLoss(log) ==
    IF log = << >> THEN 0
    ELSE log[1].profit_loss + SumProfitLoss(Tail(log))

Winning(log) == {k \in 1..Len(log) : log[k].profit_loss > 0}
Losing(log) == {k \in 1..Len(log) : log[k].profit_loss < 0}

RECURSIVE SumHoldingDays(_)
SumHoldingDays(log) ==
    IF log = << >> THEN 0
    ELSE log[1].holding_days + SumHoldingDays(Tail(log))

\* {} of the code: a dict without keys
EmptyDict == [k \in {} |-> 0]

\* _empty_metrics
EmptyMetrics ==
    [basic_stats |->
        [total_trades |-> 0, winning_trades |-> 0, losing_trades |-> 0,
         win_rate |-> 0, total_return |-> 0, total_return_pct |-> 0],
     risk_metrics |-> EmptyDict,
     profitability_metrics |-> EmptyDict,
     efficiency_metrics |-> EmptyDict,
     market_comparison |-> EmptyDict,
     monthly_analysis |-> EmptyDict,
     trade_analysis |-> EmptyDict]

\* final_value = initial_capital + total_profit_loss
FinalValue(ic, total) == ic + total

HoldingDays(log) == [k \in 1..Len(log) |-> log[k].holding_days]

\* np.median of a non-empty list of integers
Median(seq) ==
    LET sorted == SortSeq(seq, LAMBDA a, b : a < b)
        n == Len(sorted)
    IN  IF n % 2 = 1 THEN Rat(sorted[(n + 1) \div 2], 1)
        ELSE Rat(sorted[n \div 2] + sorted[n \div 2 + 1], 2)

\* _calculate_basic_stats, for a non-empty log
BasicStats(log, ic) ==
    LET total == SumProfitLoss(log)
        pct == IF ic > 0 THEN Rat(total * 100, ic) ELSE Rat(0, 1)
    IN  [total_trades |-> Len(log),
         winning_trades |-> Cardinality(Winning(log)),
         losing_trades |-> Cardinality(Losing(log)),
         win_rate |-> Rat(Cardinality(Winning(log)) * 100, Len(log)),
         total_return |-> total,
         total_return_pct |-> pct,
         avg_return_per_trade |-> Rat(total, Len(log)),
         avg_return_per_trade_pct |-> Rat(pct.num, pct.den * Len(log)),
         avg_holding_days |-> Rat(SumHoldingDays(log), Len(log)),
         median_holding_days |-> Median(HoldingDays(log)),
         initial_capital |-> ic,
         final_value |-> FinalValue(ic, total)]

\* a float the code computes, as an exact fraction; den = 0 is what numpy
\* gives for a division by zero: inf (num # 0) or nan (num = 0)
IsFinite(v) == v.den # 0

RatEq(a, b) == a.num * b.den = b.num * a.den

RatAdd(a, b) == Rat(a.num * b.den + b.num * a.den, a.den * b.den)

RatMul(a, b) == Rat(a.num * b.num, a.den * b.den)

RatDiv(a, b) == Rat(a.num * b.den, a.den * b.num)

RatAbs(a) ==
    Rat(IF a.num < 0 THEN -a.num ELSE a.num, IF a.den < 0 THEN -a.den ELSE a.den)

\* _safe_numeric(value, default): None, NaN and Infinity become the default
SafeNumeric(value, default) == IF IsFinite(value) THEN value ELSE default

Zero == Rat(0, 1)

\* 999.0, the value reported where a ratio has no denominator
Sentinel == Rat(999, 1)

WinningTrades(log) == SelectSeq(log, LAMBDA t : t.profit_loss > 0)

LosingTrades(log) == SelectSeq(log, LAMBDA t : t.profit_loss < 0)

ProfitLosses(log) == [k \in 1..Len(log) |-> log[k].profit_loss]

RECURSIVE Sum(_)
Sum(seq) == IF seq = << >> THEN 0 ELSE seq[1] + Sum(Tail(seq))

\* max(...) and min(...) of a non-empty list
MaxOf(seq) == CHOOSE m \in {seq[k] : k \in 1..Len(seq)} :
                  \A k \in 1..Len(seq) : seq[k] <= m

MinOf(seq) == CHOOSE m \in {seq[k] : k \in 1..Len(seq)} :
                  \A k \in 1..Len(seq) : seq[k] >= m

\* np.mean(...) if the list is non-empty else 0
MeanOrZero(seq) == IF seq = << >> THEN Zero ELSE Rat(Sum(seq), Len(seq))

\* the division is made whatever the gross loss, its result sanitised to 0.0
ProfitFactorUnguarded(gross_profit, gross_loss) ==
    SafeNumeric(Rat(gross_profit, gross_loss), Zero)

\* gross_profit / gross_loss if gross_loss > 0 else 999.0
ProfitFactor(gross_profit, gross_loss) ==
    SafeNumeric(IF gross_loss > 0 THEN Rat(gross_profit, gross_loss)
                ELSE Sentinel, Sentinel)

\* the sentinel also where there is no average win
PayoffRatioGuardsWin(avg_win, avg_loss) ==
    SafeNumeric(IF avg_loss.num # 0 /\ avg_win.num # 0
                THEN RatAbs(RatDiv(avg_win, avg_loss))
                ELSE Sentinel, Sentinel)

\* abs(avg_win / avg_loss) if avg_loss != 0 else 999.0
PayoffRatio(avg_win, avg_loss) ==
    SafeNumeric(IF avg_loss.num # 0 THEN RatAbs(RatDiv(avg_win, avg_loss))
                ELSE Sentinel, Sentinel)

\* _calculate_profitability_metrics
ProfitabilityMetrics(log, ic) ==
    LET wins == ProfitLosses(WinningTrades(log))
        losses == ProfitLosses(LosingTrades(log))
        avg_win == MeanOrZero(wins)
        avg_loss == MeanOrZero(losses)
        max_win == IF wins = << >> THEN 0 ELSE MaxOf(wins)
        max_loss == IF losses = << >> THEN 0 ELSE MinOf(losses)
        gross_profit == Sum(wins)
        gross_loss == IF Sum(losses) < 0 THEN -Sum(losses) ELSE Sum(losses)
        win_rate == Rat(Len(wins), Len(log))
        lose_rate == Rat(Len(log) - Len(wins), Len(log))
        expectancy == RatAdd(RatMul(avg_win, win_rate),
                             RatMul(avg_loss, lose_rate))
    IN  IF wins = << >> /\ losses = << >> THEN EmptyDict
        ELSE [gross_profit |-> SafeNumeric(Rat(gross_profit, 1), Zero),
              gross_loss |-> SafeNumeric(Rat(gross_loss, 1), Zero),
              avg_win |-> SafeNumeric(avg_win, Zero),
              avg_loss |-> SafeNumeric(avg_loss, Zero),
              max_win |-> SafeNumeric(Rat(max_win, 1), Zero),
              max_loss |-> SafeNumeric(Rat(max_loss, 1), Zero),
              profit_factor |-> ProfitFactor(gross_profit, gross_loss),
              payoff_ratio |-> PayoffRatio(avg_win, avg_loss),
              expectancy |-> SafeNumeric(expectancy, Zero),
              expectancy_pct |->
                  SafeNumeric(RatMul(RatDiv(expectancy, Rat(ic, 1)),
                                     Rat(100, 1)), Zero)]

\* a finite float whose magnitude the model does not carry (a square root,
\* or a sum of powers of such quotients)
Unevaluated == [num |-> 1, den |-> 1, unevaluated |-> TRUE]

RatLess(a, b) == a.num * b.den < b.num * a.den

Returns(log) == [k \in 1..Len(log) |-> log[k].profit_loss_pct]

AllEqual(returns) ==
    \A j, k \in 1..Len(returns) : RatEq(returns[j], returns[k])

MinRat(seq) == CHOOSE m \in {seq[k] : k \in 1..Len(seq)} :
                   \A k \in 1..Len(seq) : ~RatLess(seq[k], m)

MaxRat(seq) == CHOOSE m \in {seq[k] : k \in 1..Len(seq)} :
                   \A k \in 1..Len(seq) : ~RatLess(m, seq[k])

\* np.median of a non-empty list of floats
MedianRat(seq) ==
    LET sorted == SortSeq(seq, RatLess)
        n == Len(sorted)
        lo == sorted[n \div 2]
        hi == sorted[n \div 2 + 1]
    IN  IF n % 2 = 1 THEN sorted[(n + 1) \div 2]
        ELSE Rat(lo.num * hi.den + hi.num * lo.den, 2 * lo.den * hi.den)

\* IEEE-754 double arithmetic of np.mean on n copies of the float
\* x = ((exit - entry) / entry) * 100: <<(exit - entry) * 100, entry, n, s>>
\* says that np.mean([x] * n) differs from x, s being the sign of mean - x.
\* For n <= 6 and the closes of the series used here, these are all the
\* cases; in every other one np.mean([x] * n) == x.
InexactMeans ==
    {<<300, 81, 3, 1>>, <<300, 81, 6, -1>>,
     <<-300, 81, 3, -1>>, <<-300, 81, 6, 1>>,
     <<-300, 84, 5, 1>>, <<-300, 84, 6, 1>>,
     <<-600, 84, 5, 1>>, <<-600, 84, 6, 1>>,
     <<300, 78, 5, -1>>, <<600, 78, 5, -1>>,
     <<-1000, 90, 3, 1>>, <<-1000, 90, 6, -1>>,
     <<500, 90, 3, -1>>, <<500, 90, 6, 1>>,
     <<1000, 90, 3, -1>>, <<1000, 90, 6, 1>>,
     <<2000, 90, 3, -1>>, <<2000, 90, 6, 1>>}

\* sign of np.mean(data) - x when every element of data is x
MeanError(x, n) ==
    IF \E f \in InexactMeans : f[1] = x.num /\ f[2] = x.den /\ f[3] = n
    THEN (CHOOSE f \in InexactMeans :
              f[1] = x.num /\ f[2] = x.den /\ f[3] = n)[4]
    ELSE 0

\* std == 0 on exact numbers: all the elements are equal
StdIsZeroExact(data) == AllEqual(data)

\* std == 0 as the code evaluates it: np.std(data) is 0.0 only if every
\* element equals the computed mean
StdIsZero(data) == AllEqual(data) /\ MeanError(data[1], Len(data)) = 0

\* _calculate_skewness.  With equal elements and an inexact mean every
\* (x - mean) / std is 1 or -1 (up to the last bit).
Skewness(data) ==
    LET n == Len(data)
    IN  IF n < 3 THEN Zero
        ELSE IF StdIsZero(data) \/ n <= 2 THEN Zero
        ELSE IF AllEqual(data)
             THEN Rat(-MeanError(data[1], n) * n * n, (n - 1) * (n - 2))
             ELSE Unevaluated

\* _calculate_kurtosis.  With equal elements and an inexact mean every
\* ((x - mean) / std) ** 4 is 1 (up to the last bit).
Kurtosis(data) ==
    LET n == Len(data)
    IN  IF n < 4 THEN Zero
        ELSE IF StdIsZero(data) \/ n <= 3 THEN Zero
        ELSE IF AllEqual(data)
             THEN Rat(n * n * (n + 1) - 3 * (n - 1) * (n - 1) * (n - 1),
                      (n - 1) * (n - 2) * (n - 3))
             ELSE Unevaluated

\* np.std(data)
StdOf(data) == IF StdIsZero(data) THEN Zero ELSE Unevaluated

TradeDetail(t) ==
    [entry_date |-> t.entry_date, exit_date |-> t.exit_date,
     entry_price |-> t.entry_price, exit_price |-> t.exit_price,
     profit_loss |-> t.profit_loss, profit_loss_pct |-> t.profit_loss_pct,
     holding_days |-> t.holding_days, entry_reason |-> t.entry_reason,
     exit_reason |-> t.exit_reason]

\* _analyze_individual_trades, for a non-empty log
TradeAnalysis(log) ==
    LET returns_pct == Returns(log)
    IN  [trades_detail |-> [k \in 1..Len(log) |-> TradeDetail(log[k])],
         return_distribution |->
             [min_return |-> SafeNumeric(MinRat(returns_pct), Zero),
              max_return |-> SafeNumeric(MaxRat(returns_pct), Zero),
              median_return |-> SafeNumeric(MedianRat(returns_pct), Zero),
              std_return |-> SafeNumeric(StdOf(returns_pct), Zero),
              skewness |-> SafeNumeric(Skewness(returns_pct), Zero),
              kurtosis |-> SafeNumeric(Kurtosis(returns_pct), Zero)]]

\* a / b as numpy divides: the sign is carried by the numerator, b = 0
\* gives inf or nan (den = 0)
NpDiv(a, b) == IF b < 0 THEN Rat(-a, -b) ELSE Rat(a, b)

RatSub(a, b) == Rat(a.num * b.den - b.num * a.den, a.den * b.den)

\* inf or nan whose sign the model does not carry
NonFinite == [num |-> 1, den |-> 0, unevaluated |-> TRUE]

\* a quotient of finite floats, its magnitude not carried: finite unless
\* the divisor is zero
UnevaluatedDiv(divisorIsZero) ==
    IF divisorIsZero THEN NonFinite ELSE Unevaluated

\* _calculate_portfolio_curve
RECURSIVE PortfolioCurveFrom(_, _)
PortfolioCurveFrom(value, log) ==
    IF log = << >> THEN <<value>>
    ELSE <<value>> \o PortfolioCurveFrom(value + log[1].profit_loss, Tail(log))

PortfolioCurve(log, ic) == PortfolioCurveFrom(ic, log)

\* the returns between consecutive points of the curve
DailyReturns(pv) ==
    [k \in 1..(Len(pv) - 1) |-> NpDiv(pv[k + 1] - pv[k], pv[k])]

\* a value equal to the peak starts a new peak too
IsNewPeakOrEqual(value, peak) == value >= peak

\* if value > peak
IsNewPeak(value, peak) == value > peak

\* the loop of _calculate_detailed_drawdown over portfolio_values[1:]
RECURSIVE DrawdownScan(_, _)
DrawdownScan(acc, values) ==
    IF values = << >> THEN acc
    ELSE LET value == values[1]
         IN  IF IsNewPeak(value, acc.peak)
             THEN DrawdownScan([acc EXCEPT !.peak = value, !.current = 0],
                               Tail(values))
             ELSE LET drawdown == NpDiv(acc.peak - value, acc.peak)
                      current == acc.current + 1
                  IN  DrawdownScan(
                          [peak |-> acc.peak,
                           max_drawdown |->
                               IF RatLess(acc.max_drawdown, drawdown)
                               THEN drawdown ELSE acc.max_drawdown,
                           max_duration |->
                               IF current > acc.max_duration
                               THEN current ELSE acc.max_duration,
                           current |-> current],
                          Tail(values))

\* _calculate_detailed_drawdown: <<max_drawdown * 100, max_drawdown_duration>>
DetailedDrawdown(pv) ==
    IF Len(pv) < 2 THEN <<Zero, 0>>
    ELSE LET acc == DrawdownScan([peak |-> pv[1], max_drawdown |-> Zero,
                                  max_duration |-> 0, current |-> 0],
                                 Tail(pv))
         IN  <<RatMul(acc.max_drawdown, Rat(100, 1)), acc.max_duration>>

\* np.std(data) is 0.0 whatever the rounding: np.mean of one element, of two
\* equal elements or of zeros is the element itself.  For three or more
\* equal elements np.mean may miss the element by an ulp, and np.std is
\* then 0.0 or a few ulps, as the element decides.
StdExactlyZero(data) ==
    /\ AllEqual(data)
    /\ Len(data) <= 2 \/ \A k \in 1..Len(data) : data[k].num = 0

\* np.std(data) * math.sqrt(252) * 100
Volatility(data) == IF StdExactlyZero(data) THEN Zero ELSE Unevaluated

NegativeReturns(data) == SelectSeq(data, LAMBDA r : r.num < 0)

\* the ratio is taken whatever the standard deviation and reported as is
SharpeRatioUnguarded(daily_returns) ==
    UnevaluatedDiv(StdExactlyZero(daily_returns))

\* np.mean(excess_returns) / np.std(daily_returns) * math.sqrt(252)
\* if np.std(daily_returns) > 0 else 0
SharpeRatio(daily_returns) ==
    SafeNumeric(IF StdExactlyZero(daily_returns) THEN Zero
                ELSE UnevaluatedDiv(StdExactlyZero(daily_returns)), Zero)

\* np.mean(excess_returns) / downside_deviation * math.sqrt(252)
\* if downside_deviation > 0 else 0
SortinoRatio(daily_returns) ==
    LET negative_returns == NegativeReturns(daily_returns)
    IN  SafeNumeric(IF negative_returns = << >>
                       \/ StdExactlyZero(negative_returns)
                    THEN Zero
                    ELSE UnevaluatedDiv(StdExactlyZero(negative_returns)),
                    Zero)

\* np.percentile(daily_returns, 5): the single return, or a point between
\* the two smallest
Var95(daily_returns) ==
    IF Len(daily_returns) = 1 \/ AllEqual(daily_returns)
    THEN daily_returns[1] ELSE Unevaluated

\* the mean of the returns at or below var_95
CVar95(daily_returns) ==
    IF Len(daily_returns) = 1 \/ AllEqual(daily_returns)
    THEN daily_returns[1] ELSE Unevaluated

\* (np.mean(daily_returns) * 252 * 100) / max_drawdown if max_drawdown > 0
\* else 0
CalmarRatio(daily_returns, max_drawdown) ==
    SafeNumeric(IF max_drawdown.num > 0
                THEN UnevaluatedDiv(max_drawdown.num = 0)
                ELSE Zero, Zero)

Scaled(v, factor) ==
    IF "unevaluated" \in DOMAIN v THEN v ELSE RatMul(v, Rat(factor, 1))

\* _calculate_risk_metrics, for a non-empty log
RiskMetrics(log, ic) ==
    LET portfolio_values == PortfolioCurve(log, ic)
        daily_returns == DailyReturns(portfolio_values)
        dd == DetailedDrawdown(portfolio_values)
    IN  [max_drawdown |-> SafeNumeric(dd[1], Zero),
         max_drawdown_duration |-> dd[2],
         volatility |-> SafeNumeric(Volatility(daily_returns), Zero),
         sharpe_ratio |-> SharpeRatio(daily_returns),
         sortino_ratio |-> SortinoRatio(daily_returns),
         var_95 |-> SafeNumeric(Scaled(Var95(daily_returns), 100), Zero),
         cvar_95 |-> SafeNumeric(Scaled(CVar95(daily_returns), 100), Zero),
         calmar_ratio |-> CalmarRatio(daily_returns, dd[1])]

\* the loop of _calculate_consecutive_trades: a trade that is not a win
\* counts as a loss
RECURSIVE ConsecutiveScan(_, _)
ConsecutiveScan(acc, log) ==
    IF log = << >> THEN acc
    ELSE IF log[1].profit_loss > 0
         THEN ConsecutiveScan(
                  [wins |-> acc.wins,
                   losses |-> IF acc.current_losses > 0
                              THEN Append(acc.losses, acc.current_losses)
                              ELSE acc.losses,
                   current_wins |-> acc.current_wins + 1,
                   current_losses |-> 0],
                  Tail(log))
         ELSE ConsecutiveScan(
                  [wins |-> IF acc.current_wins > 0
                            THEN Append(acc.wins, acc.current_wins)
                            ELSE acc.wins,
                   losses |-> acc.losses,
                   current_wins |-> 0,
                   current_losses |-> acc.current_losses + 1],
                  Tail(log))

\* _calculate_consecutive_trades: <<consecutive_wins, consecutive_losses>>
ConsecutiveTrades(log) ==
    LET acc == ConsecutiveScan([wins |-> << >>, losses |-> << >>,
                                current_wins |-> 0, current_losses |-> 0],
                               log)
    IN  <<IF acc.current_wins > 0 THEN Append(acc.wins, acc.current_wins)
          ELSE acc.wins,
          IF acc.current_losses > 0
          THEN Append(acc.losses, acc.current_losses) ELSE acc.losses>>

\* np.std of a list of integers
StdOfInts(seq) ==
    IF \A j, k \in 1..Len(seq) : seq[j] = seq[k] THEN Zero ELSE Unevaluated

\* _calculate_efficiency_metrics, for a non-empty log
EfficiencyMetrics(log) ==
    LET consecutive == ConsecutiveTrades(log)
        holding_periods == HoldingDays(log)
    IN  [max_consecutive_wins |->
             IF consecutive[1] = << >> THEN 0 ELSE MaxOf(consecutive[1]),
         max_consecutive_losses |->
             IF consecutive[2] = << >> THEN 0 ELSE MaxOf(consecutive[2]),
         avg_consecutive_wins |-> SafeNumeric(MeanOrZero(consecutive[1]), Zero),
         avg_consecutive_losses |->
             SafeNumeric(MeanOrZero(consecutive[2]), Zero),
         min_holding_days |-> MinOf(holding_periods),
         max_holding_days |-> MaxOf(holding_periods),
         std_holding_days |-> SafeNumeric(StdOfInts(holding_periods), Zero)]

\* price_data['Close'].pct_change().dropna()
MarketReturns(price_data) ==
    [k \in 1..(Len(price_data) - 1) |->
        NpDiv(price_data[k + 1] - price_data[k], price_data[k])]

\* Series.tail(n)
TailOf(seq, n) == SubSeq(seq, Len(seq) - n + 1, Len(seq))

\* beta: 1.0 for fewer than two trades, or fewer market returns than trades,
\* or a market variance of 0; else covariance / market variance
Beta(log, price_data) ==
    LET market_returns == MarketReturns(price_data)
    IN  SafeNumeric(
            IF Len(log) < 2 THEN Rat(1, 1)
            ELSE IF Len(market_returns) >= Len(log)
            THEN LET market_subset == TailOf(market_returns, Len(log))
                 IN  IF StdExactlyZero(market_subset) THEN Rat(1, 1)
                     ELSE UnevaluatedDiv(StdExactlyZero(market_subset))
            ELSE Rat(1, 1), Zero)

\* alpha / np.std(strategy_returns) if np.std(strategy_returns) > 0 else 0
InformationRatio(log) ==
    SafeNumeric(IF StdExactlyZero(Returns(log)) THEN Zero
                ELSE UnevaluatedDiv(StdExactlyZero(Returns(log))), Zero)

\* _calculate_market_comparison, for a non-empty log
MarketComparison(log, price_data, ic) ==
    IF price_data = << >> THEN EmptyDict
    ELSE LET start_price == price_data[1]
             end_price == Last(price_data)
             buy_hold_return == NpDiv((end_price - start_price) * 100,
                                      start_price)
             strategy_return == NpDiv(SumProfitLoss(log) * 100, ic)
             alpha == RatSub(strategy_return, buy_hold_return)
         IN  [buy_hold_return |-> SafeNumeric(buy_hold_return, Zero),
              strategy_return |-> SafeNumeric(strategy_return, Zero),
              alpha |-> SafeNumeric(alpha, Zero),
              beta |-> Beta(log, price_data),
              information_ratio |-> InformationRatio(log)]

\* periods of the series that fall in one calendar month
DaysPerMonth == 3

\* trade['exit_date'].strftime('%Y-%m'), on dates that are row positions
MonthKey(date) == (date - 1) \div DaysPerMonth

\* the trade is filed under the month in which it was entered
TradeMonthOfEntry(trade) == MonthKey(trade.entry_date)

\* month_key = trade['exit_date'].strftime('%Y-%m')
TradeMonth(trade) == MonthKey(trade.exit_date)

\* the sums of profit_loss per month of exit, in order of first appearance
RECURSIVE MonthlyReturns(_)
MonthlyReturns(log) ==
    IF log = << >> THEN << >>
    ELSE LET month == TradeMonth(log[1])
             same == SelectSeq(log, LAMBDA t : TradeMonth(t) = month)
             rest == SelectSeq(log, LAMBDA t : TradeMonth(t) # month)
         IN  <<SumProfitLoss(same)>> \o MonthlyReturns(rest)

\* _calculate_monthly_analysis, for a non-empty log
MonthlyAnalysis(log) ==
    LET monthly_returns == MonthlyReturns(log)
        winning_months ==
            Len(SelectSeq(monthly_returns, LAMBDA m : m > 0))
    IN  [total_months |-> Len(monthly_returns),
         winning_months |-> winning_months,
         monthly_win_rate |->
             SafeNumeric(Rat(winning_months * 100, Len(monthly_returns)), Zero),
         avg_monthly_return |->
             SafeNumeric(MeanOrZero(monthly_returns), Zero),
         best_month |-> SafeNumeric(Rat(MaxOf(monthly_returns), 1), Zero),
         worst_month |-> SafeNumeric(Rat(MinOf(monthly_returns), 1), Zero),
         monthly_volatility |-> SafeNumeric(StdOfInts(monthly_returns), Zero)]

\* calculate_comprehensive_metrics, for a non-empty log
FullMetrics(log, price_data, ic) ==
    [basic_stats |-> BasicStats(log, ic),
     risk_metrics |-> RiskMetrics(log, ic),
     profitability_metrics |-> ProfitabilityMetrics(log, ic),
     efficiency_metrics |-> EfficiencyMetrics(log),
     market_comparison |-> MarketComparison(log, price_data, ic),
     monthly_analysis |-> MonthlyAnalysis(log),
     trade_analysis |-> TradeAnalysis(log)]

\* what the evaluation returns when len(trades) is used as a divisor at 0
Raised == [error |-> "ZeroDivisionError"]

MetricsWithoutEmptyGuard(log, price_data, ic) ==
    IF log = << >> THEN Raised ELSE FullMetrics(log, price_data, ic)

\* calculate_comprehensive_metrics(trades, price_data, initial_capital)
CalculateComprehensiveMetrics(log, price_data, ic) ==
    IF log = << >> THEN EmptyMetrics ELSE FullMetrics(log, price_data, ic)

---------------------------------------------------------------------------
(* BacktestEngine._calculate_performance: the max_drawdown key *)

\* the decline is taken as a fraction of the value, not of the peak
DeclineOverValue(peak, value) == NpDiv(peak - value, value)

\* drawdown = (peak - value) / peak
DeclineFromPeak(peak, value) == NpDiv(peak - value, peak)

\* the loop of _calculate_max_drawdown over portfolio_values
RECURSIVE MaxDrawdownScan(_, _)
MaxDrawdownScan(acc, values) ==
    IF values = << >> THEN acc
    ELSE LET value == values[1]
             peak == IF value > acc.peak THEN value ELSE acc.peak
             drawdown == DeclineFromPeak(peak, value)
         IN  MaxDrawdownScan(
                 [peak |-> peak,
                  max_drawdown |->
                      IF RatLess(acc.max_drawdown, drawdown)
                      THEN drawdown ELSE acc.max_drawdown],
                 Tail(values))

\* _calculate_max_drawdown(trades), the engine's capital being ic
MaxDrawdown(log, ic) ==
    IF log = << >> THEN Zero
    ELSE LET portfolio_values == PortfolioCurveFrom(ic, log)
             acc == MaxDrawdownScan([peak |-> portfolio_values[1],
                                     max_drawdown |-> Zero],
                                    portfolio_values)
         IN  RatMul(acc.max_drawdown, Rat(100, 1))

\* _calculate_performance(trades, df): of its keys, max_drawdown
CalculatePerformance(log, ic) == [max_drawdown |-> MaxDrawdown(log, ic)]

---------------------------------------------------------------------------
(* State machine *)

NoReport == << >>

DefaultStrategy == "combo"

NoOutcome == "none"

NoRow == << >>

NoRun == << >>

NoPerformance == << >>

NoManager == << >>

NoCall == << >>

\* no manager is followed
RegistryIdle == manager = NoManager /\ call = NoCall

\* no request, no indicator frame, no second run
AuxIdle ==
    /\ strategy_id = DefaultStrategy
    /\ outcome = NoOutcome
    /\ ind_prev = NoRow
    /\ ind_cur = NoRow
    /\ runB = NoRun
    /\ RegistryIdle

Init ==
    /\ initial_capital \in Capitals
    /\ strategy_params \in ParamSets
    /\ df \in PriceSeries
    /\ signals \in [1..Len(df) -> Rows]
    /\ pc = "loop"
    /\ i = 0
    /\ cash = initial_capital
    /\ AuxIdle
    /\ position = {}
    /\ trades = << >>
    /\ report = NoReport
    /\ performance = NoPerformance

\* one iteration of `for date, row in signals.iterrows()`
ProcessPeriod ==
    /\ pc = "loop"
    /\ i < Len(signals)
    /\ LET date == i + 1
           row == signals[date]
           current_price == df[date]
           buyTaken == BuyGuard(row.buy_signal, position)
           shares == Shares(cash, PositionSize, current_price)
           opened == buyTaken /\ HasShares(shares)
           posAfterBuy ==
               IF opened
               THEN {NewPosition(date, current_price, shares, row.signal_reason)}
               ELSE position
           cashAfterBuy ==
               IF opened THEN cash - shares * current_price ELSE cash
       IN  /\ i' = date
           /\ IF SellGuard(buyTaken, row.sell_signal, posAfterBuy)
              THEN LET p == CHOOSE q \in posAfterBuy : TRUE
                       exit_value == p.shares * current_price
                   IN  /\ cash' = cashAfterBuy + exit_value
                       /\ trades' = AppendTrade(trades,
                              MakeTrade(p, date, current_price, row.signal_reason))
                       /\ position' = ClearPosition(posAfterBuy)
              ELSE /\ cash' = cashAfterBuy
                   /\ position' = posAfterBuy
                   /\ trades' = trades
    /\ UNCHANGED <<initial_capital, strategy_params, df, signals, pc, report>>
    /\ UNCHANGED aux
    /\ UNCHANGED performance

\* the code after the loop: forced closure of an open position, then return;
\* run_backtest goes on to _calculate_performance(trades, df)
FinishSimulation ==
    /\ pc = "loop"
    /\ i = Len(signals)
    /\ pc' = "returned"
    /\ IF position # {}
       THEN LET final_date == Len(df)
                final_price == FinalPrice(df, Pos)
                exit_value == Pos.shares * final_price
            IN  /\ cash' = cash + exit_value
                /\ trades' = AppendTrade(trades,
                       MakeTrade(Pos, final_date, final_price, PeriodEnd))
       ELSE UNCHANGED <<cash, trades>>
    /\ UNCHANGED <<initial_capital, strategy_params, df, signals, i, position,
                   report>>
    /\ UNCHANGED aux
    /\ performance' = CalculatePerformance(trades', initial_capital)

\* an evaluation that consumes its argument: the first trade is popped
EvaluatePoppingTrades ==
    /\ pc = "returned"
    /\ pc' = "evaluated"
    /\ report' = CalculateComprehensiveMetrics(trades, df, initial_capital)
    /\ trades' = IF trades = << >> THEN trades ELSE Tail(trades)
    /\ UNCHANGED <<initial_capital, strategy_params, df, signals, i, cash,
                   position>>
    /\ UNCHANGED aux
    /\ UNCHANGED performance

\* performance_analyzer.calculate_comprehensive_metrics(trades, price_data,
\* initial_capital) on the returned log
Evaluate ==
    /\ pc = "returned"
    /\ pc' = "evaluated"
    /\ report' = CalculateComprehensiveMetrics(trades, df, initial_capital)
    /\ UNCHANGED <<initial_capital, strategy_params, df, signals, i, cash,
                   position, trades>>
    /\ UNCHANGED aux
    /\ UNCHANGED performance

Next == ProcessPeriod \/ FinishSimulation \/ Evaluate

Spec == Init /\ [][Next]_vars

---------------------------------------------------------------------------
(* Shared predicates *)

TypeOK ==
    /\ pc \in {"loop", "returned", "evaluated"}
    /\ i \in 0..Len(df)
    /\ Len(signals) = Len(df)
    /\ Cardinality(position) <= 1

ValidConfig ==
    /\ initial_capital > 0
    /\ PositionSize > 0
    /\ PositionSize <= 100

Returned == pc \in {"returned", "evaluated"}

ScenarioSignals ==
    <<Row(FALSE, FALSE), Row(TRUE, FALSE), Row(TRUE, FALSE),
      Row(FALSE, FALSE), Row(FALSE, TRUE)>>

AllNeutral ==
    \A k \in 1..Len(signals) :
        ~signals[k].buy_signal /\ ~signals[k].sell_signal

\* the step taken is an iteration of the loop
LoopStep == pc = "loop" /\ i' = i + 1

\* the step taken is the code after the loop
FinishStep == pc = "loop" /\ pc' = "returned"

---------------------------------------------------------------------------
(* Claims *)

\* C1: while the loop walks the periods at most one position is open, the
\* open position was entered strictly after the last logged exit, and in the
\* log every trade exits strictly before the next one is entered.
C1_NoOverlap ==
    /\ Cardinality(position) <= 1
    /\ \A k \in 1..(Len(trades) - 1) :
           trades[k].exit_date < trades[k + 1].entry_date
    /\ \A k \in 1..Len(trades) : trades[k].entry_date <= trades[k].exit_date
    /\ (pc = "loop" /\ position # {} /\ trades # << >>)
           => Last(trades).exit_date < Pos.entry_date

C1_Witness ==
    /\ Returned
    /\ Len(trades) >= 2
    /\ \E k \in 1..Len(signals) :
           signals[k].buy_signal /\ signals[k].sell_signal

C3_ForcedClosure ==
    [][(FinishStep /\ position # {}) =>
          /\ Len(trades') = Len(trades) + 1
          /\ SubSeq(trades', 1, Len(trades)) = trades
          /\ Last(trades').exit_date = Len(df)
          /\ Last(trades').exit_price = df[Len(df)]
          /\ Last(trades').exit_reason = PeriodEnd
          /\ Last(trades').entry_date = Pos.entry_date
          /\ Last(trades').shares = Pos.shares
          /\ cash' = cash + Pos.shares * df[Len(df)]
          /\ cash' = initial_capital + SumProfitLoss(trades')]_vars

C3_Witness ==
    /\ pc = "returned"
    /\ position # {}
    /\ Len(trades) >= 2
    /\ Last(trades).exit_reason = PeriodEnd
    /\ Last(trades).exit_price # Last(trades).entry_price

\* C4: with initial_capital > 0 and position_size in (0, 1] cash is never
\* negative, and a buy that applies (buy signal, no position, shares > 0)
\* always opens the position: none is turned down.
C4_CashNonNegative ==
    /\ [](ValidConfig => cash >= 0)
    /\ [][(ValidConfig /\ LoopStep /\ position = {}
              /\ signals[i + 1].buy_signal
              /\ (cash * PositionSize) \div (100 * df[i + 1]) > 0)
          => position' # {}]_vars

C4_Witness ==
    /\ ValidConfig
    /\ pc = "loop"
    /\ position # {}
    /\ cash = 0

\* C5: a position is opened with shares = floor(cash * position_size /
\* close) > 0, cash being the simulator's cash at that moment, and cash
\* drops by exactly shares * close; every logged trade carries the shares of
\* the position it closed, a positive integer.
C5_Sizing ==
    /\ [](\A k \in 1..Len(trades) : trades[k].shares \in Nat \ {0})
    /\ [][(LoopStep /\ position = {} /\ position' # {}) =>
             /\ Pos'.shares > 0
             /\ Pos'.entry_price = df[i + 1]
             /\ Pos'.shares = (cash * PositionSize) \div (100 * df[i + 1])
             /\ cash' = cash - Pos'.shares * df[i + 1]]_vars
    /\ [][(Len(trades') = Len(trades) + 1) =>
             /\ position # {}
             /\ Last(trades').shares = Pos.shares
             /\ Last(trades').entry_price = Pos.entry_price]_vars

\* a second entry sized from the cash left by an earlier trade, not from
\* initial_capital
C5_Witness ==
    /\ pc = "loop"
    /\ position # {}
    /\ trades # << >>
    /\ Pos.shares # (initial_capital * PositionSize) \div (100 * Pos.entry_price)

\* C6: in a period whose row has buy and sell both true, an open position
\* is closed (one trade emitted) and none is opened; with no position open
\* only the buy branch runs and no trade is emitted.
C6_BothSignals ==
    [][(LoopStep /\ signals[i + 1].buy_signal /\ signals[i + 1].sell_signal) =>
          /\ position # {} =>
                 /\ Len(trades') = Len(trades) + 1
                 /\ Last(trades').exit_date = i + 1
                 /\ position' = {}
          /\ position = {} =>
                 /\ trades' = trades
                 /\ (position' # {} => Pos'.entry_date = i + 1)]_vars

C6_Witness ==
    /\ pc = "loop"
    /\ i >= 3
    /\ signals[1].buy_signal /\ signals[1].sell_signal
    /\ signals[i].buy_signal /\ signals[i].sell_signal
    /\ Len(trades) = 1
    /\ trades[1].entry_date = 1
    /\ trades[1].exit_date = i
    /\ position = {}

\* C7: the returned log is ordered by exit_date ascending, in the order the
\* positions were closed, and only its last trade can be the forced closure.
C7_OrderedByExit ==
    /\ [](\A k \in 1..(Len(trades) - 1) :
             /\ trades[k].exit_date <= trades[k + 1].exit_date
             /\ trades[k].exit_reason # PeriodEnd)
    /\ [][Len(trades') > Len(trades) =>
             /\ SubSeq(trades', 1, Len(trades)) = trades
             /\ Len(trades') = Len(trades) + 1]_vars

C7_Witness ==
    /\ Returned
    /\ Len(trades) >= 3
    /\ Last(trades).exit_reason = PeriodEnd

\* C8: with buy and sell false in every period the simulation returns an
\* empty log and the evaluation returns the report whose basic_stats are
\* six zeros and whose other sections are empty.
C8_NoSignals ==
    AllNeutral =>
        /\ trades = << >>
        /\ position = {}
        /\ cash = initial_capital
        /\ pc = "evaluated" =>
               /\ "basic_stats" \in DOMAIN report
               /\ DOMAIN report.basic_stats =
                      {"total_trades", "winning_trades", "losing_trades",
                       "win_rate", "total_return", "total_return_pct"}
               /\ \A f \in DOMAIN report.basic_stats : report.basic_stats[f] = 0
               /\ \A sec \in DOMAIN report \ {"basic_stats"} : report[sec] = EmptyDict

C8_Witness ==
    /\ AllNeutral
    /\ pc = "evaluated"
    /\ Len(df) >= 2
    /\ initial_capital > 0

\* C9: closes 100, 90, 80, 95, 110 with capital 10000, position_size 0.95,
\* buy on days 2 and 3 and sell on day 5 give one trade: 105 shares entered
\* on day 2 at 90, exited on day 5 at 110, profit_loss 2100; the buy of day 3
\* changes nothing.
C9_Scenario ==
    (/\ df = ScenarioCloses
     /\ signals = ScenarioSignals
     /\ initial_capital = 10000
     /\ PositionSize = 95) =>
        /\ (pc = "loop" /\ i \in 2..4) =>
               /\ trades = << >>
               /\ position # {}
               /\ Pos.entry_date = 2
               /\ Pos.entry_price = 90
               /\ Pos.shares = 105
               /\ cash = 550
        /\ (i = 5) =>
               /\ Len(trades) = 1
               /\ trades[1].entry_date = 2
               /\ trades[1].entry_price = 90
               /\ trades[1].shares = 105
               /\ trades[1].exit_date = 5
               /\ trades[1].exit_price = 110
               /\ trades[1].profit_loss = 2100
               /\ trades[1].exit_reason = "signal"
               /\ cash = 12100

C9_Witness ==
    /\ df = ScenarioCloses
    /\ signals = ScenarioSignals
    /\ initial_capital = 10000
    /\ PositionSize = 95
    /\ Returned
    /\ Len(trades) = 1

\* C10 (as claimed): with a non-positive initial_capital or a position_size
\* outside (0, 1] the run is rejected before the simulation starts: no
\* period is processed and no trade is produced.
C10_Rejected ==
    ~ValidConfig => (i = 0 /\ trades = << >> /\ pc = "loop")

---------------------------------------------------------------------------
(* StrategyManager and the /backtest handler (analyzers/strategies.py,     *)
(* app.py).  Fractions among the parameters (weights, thresholds,          *)
(* position_size) are carried in hundredths: 0.4 is 40.  The entry         *)
(* 'strategy_name' the handler adds to the parameter dict is the variable  *)
(* strategy_id.                                                            *)

RSIDefaults ==
    [rsi_period |-> 14, oversold_threshold |-> 35, overbought_threshold |-> 65,
     buy_threshold |-> 60, sell_threshold |-> 60, position_size |-> 95]

GoldenCrossDefaults ==
    [short_ma |-> 25, long_ma |-> 75, buy_threshold |-> 70,
     sell_threshold |-> 70, position_size |-> 95]

MACDDefaults ==
    [fast_period |-> 12, slow_period |-> 26, signal_period |-> 9,
     buy_threshold |-> 70, sell_threshold |-> 70, position_size |-> 95]

BollingerDefaults ==
    [bb_period |-> 20, bb_std |-> 2, buy_threshold |-> 60,
     sell_threshold |-> 60, position_size |-> 95]

ComboDefaults ==
    [rsi_weight |-> 25, ma_weight |-> 35, macd_weight |-> 25, bb_weight |-> 15,
     buy_threshold |-> 40, sell_threshold |-> 40, position_size |-> 95]

\* StrategyManager.strategies of a manager just constructed: id -> params
Strategies ==
    [rsi |-> RSIDefaults, golden_cross |-> GoldenCrossDefaults,
     macd |-> MACDDefaults, bollinger |-> BollingerDefaults,
     combo |-> ComboDefaults]

\* a lookup that answers an unknown id with the default policy
GetStrategyWithFallback(strategy_name) ==
    IF strategy_name \in DOMAIN Strategies
    THEN {Strategies[strategy_name]}
    ELSE {Strategies[DefaultStrategy]}

\* dict.get: {} is None, {params} the registered instance
GetStrategy(strategy_name) ==
    IF strategy_name \in DOMAIN Strategies
    THEN {Strategies[strategy_name]}
    ELSE {}

\* for key, value in strategy_params.items():
\*     if key in strategy.params: strategy.set_param(key, value)
ApplyParams(params, overrides) ==
    [k \in DOMAIN params |->
        IF k \in DOMAIN overrides THEN overrides[k] ELSE params[k]]

RequestedIds == DOMAIN Strategies \cup {"", "momentum"}

RequestCapitals == {100, 10000}

RequestParams == {EmptyParams, [position_size |-> 100]}

NoData == << >>

FetchedSeries ==
    {NoData} \cup UNION {[1..n -> SmallCloses] : n \in 1..MaxLen}

\* rows a policy writes: never both flags (every policy decides by if/elif)
PolicyRows == {r \in Rows : ~(r.buy_signal /\ r.sell_signal)}

\* a POST /backtest has arrived, or run_backtest is called directly with a
\* parameter dict naming the policy; df is what the data fetcher will return
InitApp ==
    /\ strategy_id \in RequestedIds
    /\ initial_capital \in RequestCapitals
    /\ strategy_params \in RequestParams
    /\ df \in FetchedSeries
    /\ signals = << >>
    /\ pc \in {"request", "run_backtest"}
    /\ outcome = NoOutcome
    /\ i = 0
    /\ cash = initial_capital
    /\ position = {}
    /\ trades = << >>
    /\ report = NoReport
    /\ ind_prev = NoRow
    /\ ind_cur = NoRow
    /\ runB = NoRun
    /\ RegistryIdle
    /\ performance = NoPerformance

\* backtest(): engine, manager and analyzer are constructed, the policy is
\* looked up and the request's overrides are applied to it
HandleRequest ==
    /\ pc = "request"
    /\ LET strategy == GetStrategy(strategy_id)
       IN  IF strategy = {}
           THEN /\ outcome' = "error"
                /\ pc' = "responded"
                /\ UNCHANGED strategy_params
           ELSE /\ strategy_params' =
                       ApplyParams(CHOOSE s \in strategy : TRUE, strategy_params)
                /\ pc' = "run_backtest"
                /\ UNCHANGED outcome
    /\ UNCHANGED <<initial_capital, df, signals, i, cash, position, trades,
                   report, strategy_id, ind_prev, ind_cur, runB>>
    /\ UNCHANGED registry
    /\ UNCHANGED performance

\* run_backtest up to the call of _simulate_trades: the data is prepared
\* (ValueError when none came back) and generate_signals_for_backtest looks
\* the policy up in a manager of its own (ValueError when it is unknown)
PrepareBacktest ==
    /\ pc = "run_backtest"
    /\ IF df = NoData \/ GetStrategy(strategy_id) = {}
       THEN /\ outcome' = "error"
            /\ pc' = "responded"
            /\ UNCHANGED signals
       ELSE /\ signals' \in [1..Len(df) -> PolicyRows]
            /\ pc' = "loop"
            /\ UNCHANGED outcome
    /\ UNCHANGED <<initial_capital, strategy_params, df, i, cash, position,
                   trades, report, strategy_id, ind_prev, ind_cur, runB>>
    /\ UNCHANGED registry
    /\ UNCHANGED performance

\* the response is built from the report and returned with success True
Respond ==
    /\ pc = "evaluated"
    /\ pc' = "responded"
    /\ outcome' = "success"
    /\ UNCHANGED <<initial_capital, strategy_params, df, signals, i, cash,
                   position, trades, report, strategy_id, ind_prev, ind_cur,
                   runB>>
    /\ UNCHANGED registry
    /\ UNCHANGED performance

NextApp ==
    \/ HandleRequest
    \/ PrepareBacktest
    \/ ProcessPeriod
    \/ FinishSimulation
    \/ Evaluate
    \/ Respond

SpecApp == InitApp /\ [][NextApp]_vars

UnknownStrategy == strategy_id \notin {"rsi", "golden_cross", "macd", "bollinger", "combo"}

SimulationStarted ==
    \/ pc \in {"loop", "returned", "evaluated"}
    \/ i # 0
    \/ trades # << >>
    \/ signals # << >>
    \/ report # NoReport

\* C11: a request naming a policy that is none of rsi, golden_cross, macd,
\* bollinger, combo never starts the simulation, and the response it gets is
\* the error outcome.
C11_UnknownStrategy ==
    UnknownStrategy =>
        /\ ~SimulationStarted
        /\ pc = "responded" => outcome = "error"
        /\ outcome # "success"

C11_Witness ==
    /\ UnknownStrategy
    /\ pc = "responded"
    /\ outcome = "error"
    /\ trades = << >>

---------------------------------------------------------------------------
(* Profitability section of the report *)

Evaluated == pc = "evaluated"

OneLoserNoWinner ==
    /\ Cardinality(Losing(trades)) = 1
    /\ Winning(trades) = {}

\* C12 as stated: with exactly one losing trade and no winning trade,
\* profit_factor and payoff_ratio both equal the sentinel 999.
C12_Original ==
    (Evaluated /\ OneLoserNoWinner) =>
        /\ RatEq(report.profitability_metrics.profit_factor, Sentinel)
        /\ RatEq(report.profitability_metrics.payoff_ratio, Sentinel)

\* C12, amended: with exactly one losing trade and no winning trade the
\* gross loss and the average loss are not zero, so both ratios are computed:
\* profit_factor = 0 / gross_loss = 0 and payoff_ratio = |0 / avg_loss| = 0,
\* finite values, not the sentinel.
C12_OneLoser ==
    (Evaluated /\ OneLoserNoWinner) =>
        /\ IsFinite(report.profitability_metrics.profit_factor)
        /\ IsFinite(report.profitability_metrics.payoff_ratio)
        /\ RatEq(report.profitability_metrics.profit_factor, Zero)
        /\ RatEq(report.profitability_metrics.payoff_ratio, Zero)

C12_Witness ==
    /\ Evaluated
    /\ OneLoserNoWinner
    /\ Len(trades) = 1
    /\ report.profitability_metrics.gross_loss.num > 0

WinnersNoLoser ==
    /\ Winning(trades) # {}
    /\ Losing(trades) = {}

\* C13: with at least one winning trade and no losing trade (gross loss 0,
\* average loss 0) profit_factor is 999 and payoff_ratio is 999, and the
\* evaluation returns a report: nothing is divided by zero.
C13_NoLoser ==
    (Evaluated /\ WinnersNoLoser) =>
        /\ "profitability_metrics" \in DOMAIN report
        /\ RatEq(report.profitability_metrics.gross_loss, Zero)
        /\ RatEq(report.profitability_metrics.avg_loss, Zero)
        /\ report.profitability_metrics.profit_factor = Sentinel
        /\ report.profitability_metrics.payoff_ratio = Sentinel

C13_Witness ==
    /\ Evaluated
    /\ WinnersNoLoser
    /\ report.profitability_metrics.gross_profit.num > 0
    /\ report.profitability_metrics.profit_factor = Sentinel

---------------------------------------------------------------------------
(* Evaluation of logs of up to MaxPairs round trips: the simulator is run   *)
(* on a series that alternates buy and sell signals, so every pair of       *)
(* periods gives one trade.                                                 *)

MaxPairs == 5

EvalCloses == {81, 84}

EvalCapital == 10000

AlternatingSignals(n) ==
    [k \in 1..n |-> IF k % 2 = 1 THEN Row(TRUE, FALSE) ELSE Row(FALSE, TRUE)]

InitEval ==
    /\ initial_capital = EvalCapital
    /\ strategy_params = EmptyParams
    /\ \E n \in 1..MaxPairs : df \in [1..2 * n -> EvalCloses]
    /\ signals = AlternatingSignals(Len(df))
    /\ pc = "loop"
    /\ i = 0
    /\ cash = initial_capital
    /\ AuxIdle
    /\ position = {}
    /\ trades = << >>
    /\ report = NoReport
    /\ performance = NoPerformance

SpecEval == InitEval /\ [][Next]_vars

ReportedSkewness == report.trade_analysis.return_distribution.skewness

ReportedKurtosis == report.trade_analysis.return_distribution.kurtosis

\* C14: the reported skewness is 0 for fewer than 3 trades, the reported
\* kurtosis is 0 for fewer than 4 trades, and both are 0 whenever all
\* per-trade percentage returns are equal.
C14_SkewKurtFloors ==
    (Evaluated /\ trades # << >>) =>
        /\ Len(trades) < 3 => RatEq(ReportedSkewness, Zero)
        /\ Len(trades) < 4 => RatEq(ReportedKurtosis, Zero)
        /\ AllEqual(Returns(trades)) =>
               /\ RatEq(ReportedSkewness, Zero)
               /\ RatEq(ReportedKurtosis, Zero)

---------------------------------------------------------------------------
(* A second call of calculate_comprehensive_metrics on the same analyzer,  *)
(* with the same arguments.  The analyzer's only attribute, risk_free_rate,*)
(* is assigned in __init__ and nowhere else.                               *)

EvaluateAgain ==
    /\ pc = "evaluated"
    /\ pc' = "evaluated_again"
    /\ report' = CalculateComprehensiveMetrics(trades, df, initial_capital)
    /\ UNCHANGED <<initial_capital, strategy_params, df, signals, i, cash,
                   position, trades>>
    /\ UNCHANGED aux
    /\ UNCHANGED performance

NextTwice == Next \/ EvaluateAgain

SpecTwice == InitEval /\ [][NextTwice]_vars

FirstCall == pc = "returned" /\ pc' = "evaluated"

SecondCall == pc = "evaluated" /\ pc' = "evaluated_again"

---------------------------------------------------------------------------
(* Signal policies (analyzers/strategies.py).  An indicator value is <<v>>, *)
(* or << >> for NaN.  A policy's loop is followed one period at a time:     *)
(* ind_cur is df.iloc[i], ind_prev what the crossover policies read of      *)
(* df.iloc[i-1], and signals holds the row the iteration leaves in the      *)
(* signals frame at df.index[i].                                            *)

MaxPeriods == 3

NaN == << >>

IsNa(x) == x = NaN

Val(x) == x[1]

Neutral == Row(FALSE, FALSE)

BuyRow == Row(TRUE, FALSE)

SellRow == Row(FALSE, TRUE)

IndicatorRow(close, rsi, short, long, hist, lower, upper) ==
    [Close |-> close, RSI |-> rsi, SMA_25 |-> short, SMA_75 |-> long,
     MACD_histogram |-> hist, BB_lower |-> lower, BB_upper |-> upper]

\* the row of a period before any rolling window is full
UndefinedRow(close) == IndicatorRow(close, NaN, NaN, NaN, NaN, NaN, NaN)

\* what GoldenCrossStrategy and MACDStrategy read of the previous row
CrossoverPart(row) ==
    [SMA_25 |-> row.SMA_25, SMA_75 |-> row.SMA_75,
     MACD_histogram |-> row.MACD_histogram]

\* NaN read as 0, as after a fillna(0)
RSISignalFillZero(params, cur) ==
    LET rsi == IF IsNa(cur.RSI) THEN 0 ELSE Val(cur.RSI)
    IN  IF rsi <= params.oversold_threshold THEN BuyRow
        ELSE IF rsi >= params.overbought_threshold THEN SellRow
        ELSE Neutral

\* RSIStrategy.generate_signals, iteration i
RSISignal(params, cur) ==
    IF IsNa(cur.RSI) THEN Neutral
    ELSE IF Val(cur.RSI) <= params.oversold_threshold THEN BuyRow
    ELSE IF Val(cur.RSI) >= params.overbought_threshold THEN SellRow
    ELSE Neutral

\* GoldenCrossStrategy.generate_signals: the loop starts at 1, row 0 keeps
\* its initial False, False
GoldenCrossSignal(k, prev, cur) ==
    IF k < 1 THEN Neutral
    ELSE IF IsNa(cur.SMA_25) \/ IsNa(cur.SMA_75)
            \/ IsNa(prev.SMA_25) \/ IsNa(prev.SMA_75) THEN Neutral
    ELSE IF Val(prev.SMA_25) <= Val(prev.SMA_75)
            /\ Val(cur.SMA_25) > Val(cur.SMA_75) THEN BuyRow
    ELSE IF Val(prev.SMA_25) >= Val(prev.SMA_75)
            /\ Val(cur.SMA_25) < Val(cur.SMA_75) THEN SellRow
    ELSE Neutral

\* MACDStrategy.generate_signals
MACDSignal(k, prev, cur) ==
    IF k < 1 THEN Neutral
    ELSE IF IsNa(cur.MACD_histogram) \/ IsNa(prev.MACD_histogram) THEN Neutral
    ELSE IF Val(prev.MACD_histogram) <= 0 /\ Val(cur.MACD_histogram) > 0
         THEN BuyRow
    ELSE IF Val(prev.MACD_histogram) >= 0 /\ Val(cur.MACD_histogram) < 0
         THEN SellRow
    ELSE Neutral

\* BollingerBandStrategy.generate_signals
BollingerSignal(cur) ==
    IF IsNa(cur.BB_upper) \/ IsNa(cur.BB_lower) THEN Neutral
    ELSE IF cur.Close <= Val(cur.BB_lower) THEN BuyRow
    ELSE IF cur.Close >= Val(cur.BB_upper) THEN SellRow
    ELSE Neutral

\* the four votes of ComboStrategy: its sub-policies are fresh instances
\* with their default parameters
Votes(k, prev, cur) ==
    [rsi_weight |-> RSISignal(RSIDefaults, cur),
     ma_weight |-> GoldenCrossSignal(k, prev, cur),
     macd_weight |-> MACDSignal(k, prev, cur),
     bb_weight |-> BollingerSignal(cur)]

WeightKeys == <<"rsi_weight", "ma_weight", "macd_weight", "bb_weight">>

\* buy_score after the four additions, in the order of the code
BuyScore(params, votes) ==
    Sum([n \in 1..4 |-> IF votes[WeightKeys[n]].buy_signal
                        THEN params[WeightKeys[n]] ELSE 0])

\* a sub-policy's sell vote counts only if it does not vote buy (elif)
SellScore(params, votes) ==
    Sum([n \in 1..4 |-> IF ~votes[WeightKeys[n]].buy_signal
                           /\ votes[WeightKeys[n]].sell_signal
                        THEN params[WeightKeys[n]] ELSE 0])

\* the two final tests as two independent ifs
ComboSignalIfIf(params, k, prev, cur) ==
    LET votes == Votes(k, prev, cur)
    IN  Row(BuyScore(params, votes) >= params.buy_threshold,
            SellScore(params, votes) >= params.sell_threshold)

\* the final tests with > in place of >=
ComboSignalStrict(params, k, prev, cur) ==
    LET votes == Votes(k, prev, cur)
    IN  IF BuyScore(params, votes) > params.buy_threshold THEN BuyRow
        ELSE IF SellScore(params, votes) > params.sell_threshold THEN SellRow
        ELSE Neutral

\* ComboStrategy.generate_signals, iteration i
ComboSignal(params, k, prev, cur) ==
    LET votes == Votes(k, prev, cur)
    IN  IF BuyScore(params, votes) >= params.buy_threshold THEN BuyRow
        ELSE IF SellScore(params, votes) >= params.sell_threshold THEN SellRow
        ELSE Neutral

\* strategy.generate_signals(df), iteration k (0-based) of the policy named
PolicySignal(strategy_name, params, k, prev, cur) ==
    CASE strategy_name = "rsi" -> RSISignal(params, cur)
      [] strategy_name = "golden_cross" -> GoldenCrossSignal(k, prev, cur)
      [] strategy_name = "macd" -> MACDSignal(k, prev, cur)
      [] strategy_name = "bollinger" -> BollingerSignal(cur)
      [] strategy_name = "combo" -> ComboSignal(params, k, prev, cur)

(* Inputs of the policies *)

PolicyClose == 100

RSIValues == {NaN, <<30>>, <<35>>, <<50>>, <<65>>, <<70>>}

SMAValues == {NaN, <<1>>, <<2>>, <<3>>}

HistValues == {NaN, <<-1>>, <<0>>, <<1>>}

\* <<BB_lower, BB_upper>>
Bands ==
    {<<NaN, NaN>>, <<NaN, <<120>>>>, <<<<80>>, NaN>>, <<<<80>>, <<120>>>>,
     <<<<100>>, <<120>>>>, <<<<80>>, <<100>>>>, <<<<100>>, <<100>>>>}

\* the rows drawn for a policy: the indicators it reads take every value,
\* for combo each sub-policy gets an undefined, a buying and a selling input
IndicatorRows(strategy_name) ==
    CASE strategy_name = "rsi" ->
           {IndicatorRow(PolicyClose, r, NaN, NaN, NaN, NaN, NaN) :
                r \in RSIValues}
      [] strategy_name = "golden_cross" ->
           {IndicatorRow(PolicyClose, NaN, s, l, NaN, NaN, NaN) :
                s \in SMAValues, l \in {NaN, <<2>>}}
      [] strategy_name = "macd" ->
           {IndicatorRow(PolicyClose, NaN, NaN, NaN, h, NaN, NaN) :
                h \in HistValues}
      [] strategy_name = "bollinger" ->
           {IndicatorRow(PolicyClose, NaN, NaN, NaN, NaN, b[1], b[2]) :
                b \in Bands}
      [] strategy_name = "combo" ->
           {IndicatorRow(PolicyClose, r, sl[1], sl[2], h, b[1], b[2]) :
                r \in {NaN, <<30>>, <<70>>},
                sl \in {<<NaN, NaN>>, <<<<1>>, <<2>>>>, <<<<3>>, <<2>>>>},
                h \in {NaN, <<-1>>, <<1>>},
                b \in {<<NaN, NaN>>, <<<<100>>, <<120>>>>, <<<<80>>, <<100>>>>}}

\* overrides a request may carry for a policy (keys of its params)
PolicyOverrides(strategy_name) ==
    CASE strategy_name = "rsi" ->
           {EmptyParams,
            [oversold_threshold |-> 70, overbought_threshold |-> 30],
            [oversold_threshold |-> 50, overbought_threshold |-> 50]}
      [] strategy_name = "combo" ->
           {EmptyParams,
            [buy_threshold |-> 0],
            [sell_threshold |-> 0],
            [buy_threshold |-> 60],
            [buy_threshold |-> 100, sell_threshold |-> 100],
            [buy_threshold |-> 50, sell_threshold |-> 25]}
      [] OTHER -> {EmptyParams}

\* either the loop of generate_signals is followed period by period on an
\* arbitrary indicator frame, or the policy is run on a frame too short for
\* any indicator to be defined and the simulation follows
InitPolicy ==
    /\ strategy_id \in DOMAIN Strategies
    /\ \E ov \in PolicyOverrides(strategy_id) :
           strategy_params = ApplyParams(Strategies[strategy_id], ov)
    /\ initial_capital = EvalCapital
    /\ \/ pc = "generate" /\ df = NoData
       \/ pc = "undefined_frame"
          /\ df \in UNION {[1..n -> SmallCloses] : n \in 1..MaxPeriods}
    /\ signals = << >>
    /\ i = 0
    /\ cash = initial_capital
    /\ position = {}
    /\ trades = << >>
    /\ report = NoReport
    /\ outcome = NoOutcome
    /\ ind_prev = NoRow
    /\ ind_cur = NoRow
    /\ runB = NoRun
    /\ RegistryIdle
    /\ performance = NoPerformance

\* one iteration of the loop of generate_signals
GeneratePeriod ==
    /\ pc = "generate"
    /\ i < MaxPeriods
    /\ \E cur \in IndicatorRows(strategy_id) :
           LET prev == IF i = 0 THEN NoRow ELSE CrossoverPart(ind_cur)
           IN  /\ ind_prev' = prev
               /\ ind_cur' = cur
               /\ signals' =
                      <<PolicySignal(strategy_id, strategy_params, i, prev, cur)>>
    /\ i' = i + 1
    /\ UNCHANGED <<initial_capital, strategy_params, df, pc, cash, position,
                   trades, report, strategy_id, outcome, runB>>
    /\ UNCHANGED registry
    /\ UNCHANGED performance

\* generate_signals on a frame in which no indicator is defined
GenerateUndefined ==
    /\ pc = "undefined_frame"
    /\ signals' =
           [k \in 1..Len(df) |->
               PolicySignal(strategy_id, strategy_params, k - 1,
                            IF k = 1 THEN NoRow
                            ELSE CrossoverPart(UndefinedRow(df[k - 1])),
                            UndefinedRow(df[k]))]
    /\ pc' = "loop"
    /\ UNCHANGED <<initial_capital, strategy_params, df, i, cash, position,
                   trades, report, strategy_id, outcome, ind_prev, ind_cur,
                   runB>>
    /\ UNCHANGED registry
    /\ UNCHANGED performance

NextPolicy ==
    \/ GeneratePeriod
    \/ GenerateUndefined
    \/ ProcessPeriod
    \/ FinishSimulation
    \/ Evaluate

SpecPolicy == InitPolicy /\ [][NextPolicy]_vars

---------------------------------------------------------------------------
(* Claims on the policies *)

\* the loop of generate_signals has just handled period i - 1 (0-based)
PeriodHandled == pc = "generate" /\ i >= 1

Emitted == signals[1]

SMAUndefined ==
    \/ i = 1
    \/ IsNa(ind_cur.SMA_25) \/ IsNa(ind_cur.SMA_75)
    \/ IsNa(ind_prev.SMA_25) \/ IsNa(ind_prev.SMA_75)

HistUndefined ==
    \/ i = 1
    \/ IsNa(ind_cur.MACD_histogram) \/ IsNa(ind_prev.MACD_histogram)

BandsUndefined == IsNa(ind_cur.BB_upper) \/ IsNa(ind_cur.BB_lower)

\* the indicator values the policy reads in this period are undefined
ReadsUndefined ==
    CASE strategy_id = "rsi" -> IsNa(ind_cur.RSI)
      [] strategy_id = "golden_cross" -> SMAUndefined
      [] strategy_id = "macd" -> HistUndefined
      [] strategy_id = "bollinger" -> BandsUndefined
      [] strategy_id = "combo" ->
           IsNa(ind_cur.RSI) /\ SMAUndefined /\ HistUndefined /\ BandsUndefined

\* the simulation that follows a frame without any defined indicator
AfterUndefinedFrame == pc \in {"loop", "returned", "evaluated"}

PositiveThresholds ==
    strategy_id = "combo" =>
        strategy_params.buy_threshold > 0 /\ strategy_params.sell_threshold > 0

\* C16 as stated: whenever the indicator values a policy reads are undefined
\* in a period the signal it emits is neutral, and a series without any
\* defined indicator gives zero trades.
C16_Original ==
    /\ (PeriodHandled /\ ReadsUndefined) => Emitted = Neutral
    /\ AfterUndefinedFrame =>
           /\ trades = << >>
           /\ \A k \in 1..Len(signals) : signals[k] = Neutral

\* C16, amended: the same, for rsi, golden_cross, macd and bollinger under
\* every parameter setting and for combo when buy_threshold and
\* sell_threshold are positive; with a threshold of 0 the combination's empty
\* score reaches the threshold and it fires in every period, whatever the
\* indicators.
C16_UndefinedNeutral ==
    PositiveThresholds =>
        /\ (PeriodHandled /\ ReadsUndefined) => Emitted = Neutral
        /\ AfterUndefinedFrame =>
               /\ trades = << >>
               /\ \A k \in 1..Len(signals) : signals[k] = Neutral
               /\ pc = "evaluated" => report = EmptyMetrics

C16_Witness ==
    /\ PeriodHandled
    /\ strategy_id = "golden_cross"
    /\ i >= 2
    /\ ~IsNa(ind_cur.SMA_25) /\ ~IsNa(ind_cur.SMA_75)
    /\ ~IsNa(ind_prev.SMA_25) /\ IsNa(ind_prev.SMA_75)
    /\ Val(ind_cur.SMA_25) > Val(ind_cur.SMA_75)
    /\ Emitted = Neutral

\* the sub-policies voting buy, and those voting sell, in this period
BuyVoters == {w \in {"rsi_weight", "ma_weight", "macd_weight", "bb_weight"} :
                 Votes(i - 1, ind_prev, ind_cur)[w].buy_signal}

SellVoters == {w \in {"rsi_weight", "ma_weight", "macd_weight", "bb_weight"} :
                  Votes(i - 1, ind_prev, ind_cur)[w].sell_signal}

WeightOf(voters) ==
    (IF "rsi_weight" \in voters THEN strategy_params.rsi_weight ELSE 0)
    + (IF "ma_weight" \in voters THEN strategy_params.ma_weight ELSE 0)
    + (IF "macd_weight" \in voters THEN strategy_params.macd_weight ELSE 0)
    + (IF "bb_weight" \in voters THEN strategy_params.bb_weight ELSE 0)

\* C17: combo fires a buy exactly when the weights of the sub-policies
\* voting buy sum to buy_threshold or more (equality triggers), and a sell
\* exactly when no buy fired and the weights of those voting sell sum to
\* sell_threshold or more.
C17_ComboThreshold ==
    (PeriodHandled /\ strategy_id = "combo") =>
        /\ Emitted.buy_signal <=>
               WeightOf(BuyVoters) >= strategy_params.buy_threshold
        /\ Emitted.sell_signal <=>
               (/\ ~Emitted.buy_signal
                /\ WeightOf(SellVoters) >= strategy_params.sell_threshold)

C17_Witness ==
    /\ PeriodHandled
    /\ strategy_id = "combo"
    /\ BuyVoters = {"rsi_weight", "bb_weight"}
    /\ WeightOf(BuyVoters) = strategy_params.buy_threshold
    /\ strategy_params.buy_threshold = 40
    /\ Emitted = BuyRow

\* C18: no row any built-in policy writes has buy_signal and sell_signal
\* both true, whatever the indicator values and the parameter overrides.
C18_NeverBoth ==
    \A k \in 1..Len(signals) : ~(signals[k].buy_signal /\ signals[k].sell_signal)

C18_Witness ==
    /\ PeriodHandled
    /\ strategy_id = "combo"
    /\ strategy_params.buy_threshold > 0
    /\ WeightOf(BuyVoters) >= strategy_params.buy_threshold
    /\ WeightOf(SellVoters) >= strategy_params.sell_threshold
    /\ Emitted = BuyRow

---------------------------------------------------------------------------
(* Two requests served at once.  The first is the run of the variables      *)
(* above; the second has its own engine, manager, analyzer, signals and     *)
(* price series, kept in the record runB.  A step of either run is one      *)
(* period of its simulation, its closing code or its evaluation.            *)

MaxPairLen == 2

\* the state of a run whose engine has just been constructed
NewRun(id, ic, params, closes, sigs) ==
    [strategy_id |-> id, initial_capital |-> ic, strategy_params |-> params,
     df |-> closes, signals |-> sigs, pc |-> "request", i |-> 0,
     cash |-> ic, position |-> {}, trades |-> << >>, report |-> NoReport,
     outcome |-> NoOutcome]

\* backtest() up to the call of _simulate_trades on the run's own objects
RunRequest(r) ==
    IF GetStrategy(r.strategy_id) = {} \/ r.df = NoData
    THEN [r EXCEPT !.pc = "responded", !.outcome = "error"]
    ELSE [r EXCEPT !.pc = "loop"]

\* one iteration of the loop of _simulate_trades on the run's own locals
RunPeriod(r) ==
    LET date == r.i + 1
        row == r.signals[date]
        current_price == r.df[date]
        buyTaken == BuyGuard(row.buy_signal, r.position)
        shares == Shares(r.cash,
                         Get(r.strategy_params, "position_size",
                             DefaultPositionSize),
                         current_price)
        opened == buyTaken /\ shares > 0
        posAfterBuy ==
            IF opened
            THEN {NewPosition(date, current_price, shares, row.signal_reason)}
            ELSE r.position
        cashAfterBuy ==
            IF opened THEN r.cash - shares * current_price ELSE r.cash
    IN  IF SellGuard(buyTaken, row.sell_signal, posAfterBuy)
        THEN LET p == CHOOSE q \in posAfterBuy : TRUE
             IN  [r EXCEPT !.i = date,
                           !.cash = cashAfterBuy + p.shares * current_price,
                           !.trades = AppendTrade(r.trades,
                               MakeTrade(p, date, current_price,
                                         row.signal_reason)),
                           !.position = ClearPosition(posAfterBuy)]
        ELSE [r EXCEPT !.i = date, !.cash = cashAfterBuy,
                       !.position = posAfterBuy]

\* the code after the loop
RunFinish(r) ==
    IF r.position # {}
    THEN LET p == CHOOSE q \in r.position : TRUE
             final_price == FinalPrice(r.df, p)
         IN  [r EXCEPT !.pc = "returned",
                       !.cash = r.cash + p.shares * final_price,
                       !.trades = AppendTrade(r.trades,
                           MakeTrade(p, Len(r.df), final_price, PeriodEnd))]
    ELSE [r EXCEPT !.pc = "returned"]

\* calculate_comprehensive_metrics and the response
RunEvaluate(r) ==
    [r EXCEPT !.pc = "responded", !.outcome = "success",
              !.report = CalculateComprehensiveMetrics(r.trades, r.df,
                                                       r.initial_capital)]

RunDone(r) == r.pc = "responded"

\* the next step of a run
StepRun(r) ==
    CASE r.pc = "request" -> RunRequest(r)
      [] r.pc = "loop" /\ r.i < Len(r.signals) -> RunPeriod(r)
      [] r.pc = "loop" /\ r.i = Len(r.signals) -> RunFinish(r)
      [] r.pc = "returned" -> RunEvaluate(r)

\* a run executed on its own, from construction to response
RECURSIVE RunAlone(_)
RunAlone(r) == IF RunDone(r) THEN r ELSE RunAlone(StepRun(r))

PairSeries == UNION {[1..n -> SmallCloses] : n \in 1..MaxPairLen}

\* the second request: two that end in an error, two that trade
SecondRuns ==
    {NewRun("momentum", 10000, EmptyParams, <<90, 110>>,
            <<BuyRow, SellRow>>),
     NewRun("rsi", 10000, EmptyParams, NoData, << >>),
     NewRun("rsi", 10000, EmptyParams, <<90, 110>>, <<BuyRow, SellRow>>),
     NewRun("combo", 100, [position_size |-> 100], <<110, 90, 110>>,
            <<BuyRow, Neutral, BuyRow>>)}

InitPair ==
    /\ strategy_id \in {"rsi", "combo"}
    /\ initial_capital = EvalCapital
    /\ strategy_params = EmptyParams
    /\ df \in PairSeries
    /\ signals \in [1..Len(df) -> PolicyRows]
    /\ pc = "loop"
    /\ i = 0
    /\ cash = initial_capital
    /\ position = {}
    /\ trades = << >>
    /\ report = NoReport
    /\ outcome = NoOutcome
    /\ ind_prev = NoRow
    /\ ind_cur = NoRow
    /\ runB \in SecondRuns
    /\ RegistryIdle
    /\ performance = NoPerformance

\* a step of the second run that writes its trades into the first run's log
StepSecondSharedLog ==
    /\ ~RunDone(runB)
    /\ runB' = StepRun(runB)
    /\ trades' = IF Len(runB'.trades) > Len(runB.trades)
                 THEN AppendTrade(trades, Last(runB'.trades))
                 ELSE trades
    /\ UNCHANGED <<initial_capital, strategy_params, df, signals, pc, i, cash,
                   position, report, strategy_id, outcome, ind_prev,
                   ind_cur>>
    /\ UNCHANGED registry
    /\ UNCHANGED performance

\* a step of the second run: it reads and writes its own objects only
StepSecond ==
    /\ ~RunDone(runB)
    /\ runB' = StepRun(runB)
    /\ UNCHANGED <<initial_capital, strategy_params, df, signals, pc, i, cash,
                   position, trades, report, strategy_id, outcome, ind_prev,
                   ind_cur>>
    /\ UNCHANGED registry
    /\ UNCHANGED performance

NextPair == Next \/ StepSecond

SpecPair == InitPair /\ [][NextPair]_vars

\* the first run, had it been executed alone from its inputs
FirstAlone ==
    RunAlone([NewRun(strategy_id, initial_capital, strategy_params, df,
                     signals) EXCEPT !.pc = "loop"])

SecondAlone ==
    RunAlone(NewRun(runB.strategy_id, runB.initial_capital,
                    runB.strategy_params, runB.df, runB.signals))

---------------------------------------------------------------------------
(* Finiteness of the report *)

\* the keys of a section that hold floats
FloatKeys ==
    [basic_stats |->
         {"win_rate", "total_return_pct", "avg_return_per_trade",
          "avg_return_per_trade_pct", "avg_holding_days",
          "median_holding_days"},
     risk_metrics |->
         {"max_drawdown", "volatility", "sharpe_ratio", "sortino_ratio",
          "var_95", "cvar_95", "calmar_ratio"},
     profitability_metrics |->
         {"gross_profit", "gross_loss", "avg_win", "avg_loss", "max_win",
          "max_loss", "profit_factor", "payoff_ratio", "expectancy",
          "expectancy_pct"},
     efficiency_metrics |->
         {"avg_consecutive_wins", "avg_consecutive_losses",
          "std_holding_days"},
     market_comparison |->
         {"buy_hold_return", "strategy_return", "alpha", "beta",
          "information_ratio"},
     monthly_analysis |->
         {"monthly_win_rate", "avg_monthly_return", "best_month",
          "worst_month", "monthly_volatility"}]

SectionFinite(sec) ==
    /\ sec \in DOMAIN report
    /\ \A k \in FloatKeys[sec] \cap DOMAIN report[sec] : IsFinite(report[sec][k])

AllFinite ==
    /\ \A sec \in DOMAIN FloatKeys : SectionFinite(sec)
    /\ "trade_analysis" \in DOMAIN report
    /\ \A k \in DOMAIN report.trade_analysis.return_distribution :
           IsFinite(report.trade_analysis.return_distribution[k])
    /\ \A n \in DOMAIN report.trade_analysis.trades_detail :
           IsFinite(report.trade_analysis.trades_detail[n].profit_loss_pct)

NonEmptyEvaluation == Evaluated /\ trades # << >> /\ initial_capital > 0

\* C20: for every non-empty log the simulator produces and every positive
\* initial capital the evaluation returns a report (it does not raise) in
\* which every float is finite; where a ratio's denominator is zero
\* (standard deviation of the returns, downside deviation, max drawdown,
\* gross loss, average loss) the documented default stands in its place.
C20_Finite ==
    NonEmptyEvaluation =>
        /\ report # Raised
        /\ AllFinite
        /\ LET daily_returns ==
                   DailyReturns(PortfolioCurve(trades, initial_capital))
           IN  /\ StdExactlyZero(daily_returns) =>
                      report.risk_metrics.sharpe_ratio = Zero
               /\ StdExactlyZero(NegativeReturns(daily_returns)) =>
                      report.risk_metrics.sortino_ratio = Zero
               /\ report.risk_metrics.max_drawdown.num = 0 =>
                      report.risk_metrics.calmar_ratio = Zero
        /\ Losing(trades) = {} /\ Winning(trades) # {} =>
               /\ report.profitability_metrics.profit_factor = Sentinel
               /\ report.profitability_metrics.payoff_ratio = Sentinel

C20_Witness ==
    /\ NonEmptyEvaluation
    /\ Len(trades) = 1
    /\ Winning(trades) = {1}
    /\ report.risk_metrics.sharpe_ratio = Zero
    /\ report.risk_metrics.sortino_ratio = Zero
    /\ report.risk_metrics.calmar_ratio = Zero
    /\ report.risk_metrics.max_drawdown.num = 0
    /\ report.profitability_metrics.profit_factor = Sentinel
    /\ AllFinite

---------------------------------------------------------------------------
(* Drawdown of the trade-indexed portfolio curve *)

Curve == PortfolioCurve(trades, initial_capital)

\* the highest point of the curve among its first k points
RunningPeak(pv, k) ==
    CHOOSE m \in {pv[j] : j \in 1..k} : \A j \in 1..k : pv[j] <= m

\* the decline at point k as a fraction of the running peak
DeclineAt(pv, k) == Rat(RunningPeak(pv, k) - pv[k], RunningPeak(pv, k))

\* point k, after v0, does not exceed the peak of the points before it
NotNewPeak(pv, k) == k > 1 /\ pv[k] <= RunningPeak(pv, k - 1)

\* the lengths of the runs of consecutive points that are not new peaks
RunLengths(pv) ==
    {n \in 0..Len(pv) :
        \/ n = 0
        \/ \E a \in 2..Len(pv) :
               /\ a + n - 1 <= Len(pv)
               /\ \A k \in a..(a + n - 1) : NotNewPeak(pv, k)}

LongestRun(pv) ==
    CHOOSE n \in RunLengths(pv) : \A m \in RunLengths(pv) : m <= n

\* C21: for an evaluated non-empty log the reported max_drawdown is the
\* largest decline over all points of the curve, (running peak - value) /
\* running peak * 100, and max_drawdown_duration is the length of the
\* longest run of consecutive points after v0 that do not exceed the
\* running peak, a point equal to the peak counting as not a new peak.
C21_Drawdown ==
    (Evaluated /\ trades # << >>) =>
        /\ \E j \in 1..Len(Curve) :
               /\ \A k \in 1..Len(Curve) :
                      ~RatLess(DeclineAt(Curve, j), DeclineAt(Curve, k))
               /\ \/ report.risk_metrics.max_drawdown =
                         Rat(DeclineAt(Curve, j).num * 100,
                             DeclineAt(Curve, j).den)
                  \/ /\ DeclineAt(Curve, j).num = 0
                     /\ report.risk_metrics.max_drawdown = Zero
        /\ report.risk_metrics.max_drawdown_duration = LongestRun(Curve)

\* a decline, a recovery to exactly the old peak, and a longer decline run
C21_Witness ==
    /\ Evaluated
    /\ Len(trades) >= 4
    /\ \E k \in 2..Len(Curve) : Curve[k] = RunningPeak(Curve, k - 1)
    /\ \E k \in 2..Len(Curve) : Curve[k] > RunningPeak(Curve, k - 1)
    /\ report.risk_metrics.max_drawdown.num > 0
    /\ report.risk_metrics.max_drawdown_duration >= 2
    /\ report.risk_metrics.max_drawdown_duration < Len(trades)

---------------------------------------------------------------------------
(* Streaks *)

\* the length of the longest stretch of consecutive positions of 1..n that
\* all lie in S
LongestStreak(S, n) ==
    CHOOSE m \in 0..n :
        /\ m = 0 \/ \E a \in 1..n : \A k \in a..(a + m - 1) : k \in S
        /\ \A l \in (m + 1)..n :
               ~\E a \in 1..n : \A k \in a..(a + l - 1) : k \in S

BreakEven(log) == {k \in 1..Len(log) : log[k].profit_loss = 0}

\* C22: for an evaluated non-empty log max_consecutive_wins is the length of
\* the longest run of consecutive trades with profit_loss > 0 and
\* max_consecutive_losses is the length of the longest run of consecutive
\* losing trades (profit_loss < 0), a run still in progress at the last
\* trade included.
C22_Streaks ==
    (Evaluated /\ trades # << >>) =>
        /\ report.efficiency_metrics.max_consecutive_wins =
               LongestStreak(Winning(trades), Len(trades))
        /\ report.efficiency_metrics.max_consecutive_losses =
               LongestStreak(Losing(trades), Len(trades))

---------------------------------------------------------------------------
(* Monthly analysis *)

\* the months in which a trade of the log was closed
ExitMonths(log) == {MonthKey(log[k].exit_date) : k \in 1..Len(log)}

\* the trades of the log closed in the month
ClosedIn(log, month) ==
    SelectSeq(log, LAMBDA t : MonthKey(t.exit_date) = month)

WinningMonths(log) ==
    {month \in ExitMonths(log) : SumProfitLoss(ClosedIn(log, month)) > 0}

\* C23: for an evaluated non-empty log total_months is the number of
\* distinct months of exit, the monthly sums add up to the total profit_loss
\* of the log (their mean is the total over total_months), winning_months is
\* the number of months of exit whose summed profit_loss is positive, and
\* the best and the worst month are sums over the trades closed in one month.
C23_Monthly ==
    (Evaluated /\ trades # << >>) =>
        LET monthly == report.monthly_analysis
        IN  /\ monthly.total_months = Cardinality(ExitMonths(trades))
            /\ monthly.avg_monthly_return =
                   Rat(SumProfitLoss(trades), Cardinality(ExitMonths(trades)))
            /\ monthly.winning_months = Cardinality(WinningMonths(trades))
            /\ \E month \in ExitMonths(trades) :
                   monthly.best_month =
                       Rat(SumProfitLoss(ClosedIn(trades, month)), 1)
            /\ \A month \in ExitMonths(trades) :
                   /\ monthly.best_month.num >=
                          SumProfitLoss(ClosedIn(trades, month))
                   /\ monthly.worst_month.num <=
                          SumProfitLoss(ClosedIn(trades, month))

\* a trade entered in one month and closed in the next, where it joins
\* another trade; filing by month of entry would change the winning months
C23_Witness ==
    /\ Evaluated
    /\ \E k \in 1..Len(trades) :
           MonthKey(trades[k].entry_date) # MonthKey(trades[k].exit_date)
    /\ \E month \in ExitMonths(trades) : Len(ClosedIn(trades, month)) >= 2
    /\ report.monthly_analysis.total_months >= 2
    /\ report.monthly_analysis.winning_months >= 1
    /\ report.monthly_analysis.winning_months
           < report.monthly_analysis.total_months

---------------------------------------------------------------------------
(* Periods without a trade action *)

\* the row the next iteration of the loop reads
NextRow == signals[i + 1]

\* the buy branch is entered and sizes to no share
UnaffordableBuy ==
    /\ NextRow.buy_signal
    /\ position = {}
    /\ Shares(cash, PositionSize, df[i + 1]) = 0

\* a buy signal, and no sell signal, while a position is open
BuyWhileOpen ==
    NextRow.buy_signal /\ ~NextRow.sell_signal /\ position # {}

\* a sell signal, and no buy signal, while no position is open
SellWhileFlat ==
    NextRow.sell_signal /\ ~NextRow.buy_signal /\ position = {}

NeutralRow == ~NextRow.buy_signal /\ ~NextRow.sell_signal

NoTradeAction ==
    UnaffordableBuy \/ BuyWhileOpen \/ SellWhileFlat \/ NeutralRow

\* no buy signal of the series is affordable from the initial capital
NeverAffordable ==
    \A k \in 1..Len(signals) :
        signals[k].buy_signal =>
            Shares(initial_capital, PositionSize, df[k]) <= 0

\* C24: a period in which no trade action applies (a buy signal while flat
\* that sizes to 0 shares, a buy signal alone while a position is open, a
\* sell signal alone while flat, a neutral row) is stepped over: the loop
\* goes on to the next period and cash, the open position and the trade log
\* are unchanged.  When no buy signal is ever affordable the returned log is
\* empty.
C24_NoAction ==
    /\ [][(LoopStep /\ NoTradeAction) =>
              /\ cash' = cash
              /\ position' = position
              /\ trades' = trades
              /\ pc' = "loop"]_vars
    /\ []((Returned /\ NeverAffordable) =>
              (trades = << >> /\ cash = initial_capital))

\* a buy that sized to 0 shares in the first period, then an affordable buy
C24_Witness ==
    /\ pc = "loop"
    /\ i >= 2
    /\ initial_capital > 0
    /\ signals[1].buy_signal
    /\ Shares(initial_capital, PositionSize, df[1]) = 0
    /\ PositionSize > 0
    /\ position # {}
    /\ Pos.entry_date = i
    /\ Pos.shares > 0
    /\ trades = << >>

---------------------------------------------------------------------------
(* Size of the log *)

\* C25: the log never holds more than one trade per two periods walked, and
\* the log returned for a series of n periods holds at most ceil(n / 2)
\* trades, whatever the signals.
C25_LogSize ==
    /\ pc = "loop" => 2 * Len(trades) <= i
    /\ Returned => Len(trades) <= CeilDiv(Len(df), 2)

\* the bound is met on an odd number of periods: the last trade is the
\* forced closure of a position opened on the final period
C25_Witness ==
    /\ Returned
    /\ Len(df) >= 3
    /\ Len(df) % 2 = 1
    /\ 2 * Len(trades) = Len(df) + 1
    /\ Last(trades).exit_reason = PeriodEnd
    /\ Last(trades).entry_date = Len(df)

---------------------------------------------------------------------------
(* Entry and exit dates of a trade *)

ForcedClosure(t) == t.exit_reason = PeriodEnd

\* C26: in the log every trade closed by a sell signal is entered strictly
\* before it is closed and has holding_days > 0; a trade entered on the day
\* it is closed is the forced closure, the last trade of the log, of a
\* position opened on the final period, and its profit_loss is 0; a forced
\* closure of a position opened on the final period has equal dates;
\* holding_days is never negative.
C26_Dates ==
    \A k \in 1..Len(trades) :
        LET t == trades[k]
        IN  /\ t.entry_date <= t.exit_date
            /\ t.holding_days >= 0
            /\ ~ForcedClosure(t) =>
                   (t.entry_date < t.exit_date /\ t.holding_days > 0)
            /\ t.entry_date = t.exit_date <=>
                   (ForcedClosure(t) /\ t.entry_date = Len(df))
            /\ t.entry_date = t.exit_date =>
                   /\ k = Len(trades)
                   /\ t.profit_loss = 0
                   /\ t.holding_days = 0

C26_Witness ==
    /\ Returned
    /\ Len(trades) >= 2
    /\ ~ForcedClosure(trades[1])
    /\ trades[1].holding_days > 0
    /\ ForcedClosure(Last(trades))
    /\ Last(trades).entry_date = Last(trades).exit_date
    /\ Last(trades).profit_loss = 0
    /\ Last(trades).holding_days = 0

---------------------------------------------------------------------------
(* Streaks against the counts of basic_stats *)

\* C27: in the report of a non-empty log the longest winning streak is at
\* most the number of winning trades and the longest losing streak is at
\* most the number of losing trades, break-even trades in the log or not.
C27_StreakBounds ==
    (Evaluated /\ trades # << >>) =>
        /\ report.efficiency_metrics.max_consecutive_wins
               <= report.basic_stats.winning_trades
        /\ report.efficiency_metrics.max_consecutive_losses
               <= report.basic_stats.losing_trades

---------------------------------------------------------------------------
(* The profitability section of a non-empty log *)

\* C28: the report of every non-empty log has a populated
\* profitability_metrics section, with profit_factor, payoff_ratio and
\* expectancy, also when the only trade of the log is the forced closure of
\* a position opened on the final period.
C28_Populated ==
    (Evaluated /\ trades # << >>) =>
        {"profit_factor", "payoff_ratio", "expectancy"}
            \subseteq DOMAIN report.profitability_metrics

---------------------------------------------------------------------------
(* One StrategyManager over several calls (analyzers/strategies.py).  The   *)
(* manager keeps one instance per id, and a call returns that instance: the *)
(* result of a call is the params dict the caller then reads.               *)

ManagerIds == {"rsi", "combo", "momentum"}

ManagerOverrides ==
    {EmptyParams, [position_size |-> 50], [oversold_threshold |-> 20],
     [lookback |-> 5], [position_size |-> 50, lookback |-> 5]}

\* key, value pairs handed to set_param
ManagerSettings == {<<"position_size", 50>>, <<"lookback", 5>>}

\* self.params[key] = value
SetParam(params, key, value) ==
    [k \in DOMAIN params \cup {key} |-> IF k = key THEN value ELSE params[k]]

\* self.strategies.get(strategy_name) on the manager followed
ManagerGet(strategy_name) ==
    IF strategy_name \in DOMAIN manager THEN {manager[strategy_name]} ELSE {}

InitManager ==
    /\ initial_capital = EvalCapital
    /\ strategy_params = EmptyParams
    /\ df = NoData
    /\ signals = << >>
    /\ pc = "manager"
    /\ i = 0
    /\ cash = initial_capital
    /\ position = {}
    /\ trades = << >>
    /\ report = NoReport
    /\ strategy_id = DefaultStrategy
    /\ outcome = NoOutcome
    /\ ind_prev = NoRow
    /\ ind_cur = NoRow
    /\ runB = NoRun
    /\ manager = Strategies
    /\ call = NoCall
    /\ performance = NoPerformance

\* strategy_manager.get_strategy(id)
GetStrategyCall ==
    /\ pc = "manager"
    /\ \E id \in ManagerIds :
           call' = [op |-> "get_strategy", id |-> id, params |-> EmptyParams,
                    raised |-> FALSE, result |-> ManagerGet(id)]
    /\ UNCHANGED manager
    /\ UNCHANGED <<initial_capital, strategy_params, df, signals, pc, i, cash,
                   position, trades, report, strategy_id, outcome, ind_prev,
                   ind_cur, runB>>
    /\ UNCHANGED performance

\* strategy_manager.create_custom_strategy(id, params)
CreateCustomStrategy ==
    /\ pc = "manager"
    /\ \E id \in ManagerIds, params \in ManagerOverrides :
           IF id \notin DOMAIN manager
           THEN /\ call' = [op |-> "create_custom_strategy", id |-> id,
                            params |-> params, raised |-> TRUE, result |-> {}]
                /\ UNCHANGED manager
           ELSE /\ manager' =
                       [manager EXCEPT ![id] = ApplyParams(@, params)]
                /\ call' = [op |-> "create_custom_strategy", id |-> id,
                            params |-> params, raised |-> FALSE,
                            result |-> {manager'[id]}]
    /\ UNCHANGED <<initial_capital, strategy_params, df, signals, pc, i, cash,
                   position, trades, report, strategy_id, outcome, ind_prev,
                   ind_cur, runB>>
    /\ UNCHANGED performance

\* strategy.set_param(key, value) on the instance the last call returned
SetParamCall ==
    /\ pc = "manager"
    /\ call # NoCall
    /\ call.result # {}
    /\ \E setting \in ManagerSettings :
           /\ manager' = [manager EXCEPT
                             ![call.id] = SetParam(@, setting[1], setting[2])]
           /\ call' = [op |-> "set_param", id |-> call.id,
                       params |-> [k \in {setting[1]} |-> setting[2]],
                       raised |-> FALSE, result |-> {manager'[call.id]}]
    /\ UNCHANGED <<initial_capital, strategy_params, df, signals, pc, i, cash,
                   position, trades, report, strategy_id, outcome, ind_prev,
                   ind_cur, runB>>
    /\ UNCHANGED performance

NextManager == GetStrategyCall \/ CreateCustomStrategy \/ SetParamCall

SpecManager == InitManager /\ [][NextManager]_vars

\* the last call returned the instance registered under a known id
Answered(op) ==
    /\ call # NoCall
    /\ call.op = op
    /\ call.id \in DOMAIN Strategies

\* C29: on one manager, get_strategy(id) returns the strategy with its
\* default parameters and create_custom_strategy(id, params) returns it with
\* the defaults overridden by the keys of params that the strategy has and
\* by nothing else, whatever calls were made on the manager before.
C29_NoLeak ==
    /\ Answered("get_strategy") => call.result = {Strategies[call.id]}
    /\ Answered("create_custom_strategy") =>
           call.result = {ApplyParams(Strategies[call.id], call.params)}

---------------------------------------------------------------------------
(* The two max drawdowns *)

PositiveCurve == \A k \in 1..Len(Curve) : Curve[k] > 0

\* C30: for a non-empty log, a positive initial capital and a portfolio
\* curve that stays positive, the max_drawdown of
\* BacktestEngine._calculate_max_drawdown equals the max drawdown that
\* PerformanceAnalyzer._calculate_detailed_drawdown returns for the same
\* curve, which is the max_drawdown of the report.
C30_SameDrawdown ==
    (Returned /\ trades # << >> /\ initial_capital > 0 /\ PositiveCurve) =>
        /\ performance.max_drawdown = DetailedDrawdown(Curve)[1]
        /\ Evaluated =>
               performance.max_drawdown = report.risk_metrics.max_drawdown

\* a gain that moves the peak, then a loss measured from the new peak
C30_Witness ==
    /\ Evaluated
    /\ Len(trades) >= 2
    /\ PositiveCurve
    /\ \E k \in 2..Len(Curve) : Curve[k] > Curve[1]
    /\ Last(Curve) < RunningPeak(Curve, Len(Curve))
    /\ performance.max_drawdown.num > 0
    /\ performance.max_drawdown = report.risk_metrics.max_drawdown

=============================================================================
